---- MODULE Spec2Model ----
(***************************************************************************)
(* onionutil: version-2 onion-service descriptors.                         *)
(*   intropoint.go : IntroductionPoint, ParseIntroPoints, Encode,          *)
(*                   MakeIntroPointsDocument                               *)
(*   oniondesc.go  : OnionDescriptor, NewOnionDescriptor,                  *)
(*                   ParseOnionDescriptors, Body, Sign, calcSecretId,      *)
(*                   calcDescriptorId, CalcDescriptorBodyDigest            *)
(*                                                                         *)
(* Representation.  A Go []byte / string is one of                         *)
(*   [txt |-> <<"1","0">>]    literal characters                           *)
(*   [raw |-> <<0, 255>>]     literal bytes                                *)
(*   [b32 |-> b]              the base-32 text of b                        *)
(*   [sha1 |-> b]             the 20-byte digest of b                      *)
(*   [fp |-> k]               the permanent id (fingerprint) of key k      *)
(*   [der |-> k]              the DER encoding of key k                    *)
(*   [cat |-> <<b1, b2>>]     b1 followed by b2                            *)
(*   [ts |-> n]               a formatted timestamp                        *)
(*   [doc |-> elements]       a wire document: keyword lines               *)
(*                            [line, arg] and armored blocks [pem, bytes]  *)
(* The hash, base-32, DER and PEM codecs live outside the two files and    *)
(* are free constructors.  Decimal numbers and IP literals are texts and   *)
(* are formatted and parsed character by character.                        *)
(***************************************************************************)
EXTENDS Integers, Sequences, FiniteSets, TLC

VARIABLES
    pc,        \* position of the calling program
    batch,     \* tokenized records handed to a parse loop
    ipsIn,     \* introduction points the caller constructed
    wire,      \* bytes produced by an encoder
    parsed,    \* result of the last parse call
    heap,      \* backing arrays of []IntroductionPoint slices
    callerIps, \* the caller's ips slice (a reference into heap)
    desc,      \* the *OnionDescriptor under construction / use
    args,      \* the caller's permanent key and replica index
    now,       \* the wall clock, seconds since the epoch
    snap,      \* what the caller recorded about earlier calls
    sign,      \* the Sign call: callback invocations, outcome
    period     \* calcSecretId probe: inputs and computed time periods

vars == <<pc, batch, ipsIn, wire, parsed, heap, callerIps, desc, args, now, snap, sign, period>>

None == [none |-> TRUE]

(***************************************************************************)
(* Sequences and texts                                                     *)
(***************************************************************************)
RECURSIVE Flatten(_)
Flatten(ss) == IF ss = <<>> THEN <<>> ELSE Head(ss) \o Flatten(Tail(ss))

RECURSIVE SeqsUpTo(_, _)
SeqsUpTo(S, n) ==
    IF n = 0 THEN {<<>>}
    ELSE LET shorter == SeqsUpTo(S, n - 1)
         IN  shorter \cup {Append(s, x) : s \in {t \in shorter : Len(t) = n - 1}, x \in S}

DigitChars == <<"0", "1", "2", "3", "4", "5", "6", "7", "8", "9">>
HexChars   == DigitChars \o <<"a", "b", "c", "d", "e", "f">>

IndexOf(c, alphabet) ==
    IF \E i \in 1..Len(alphabet) : alphabet[i] = c
    THEN (CHOOSE i \in 1..Len(alphabet) : alphabet[i] = c) - 1
    ELSE -1

\* fmt's %d / %v of a non-negative integer in the given radix
RECURSIVE FormatRadix(_, _, _)
FormatRadix(n, radix, alphabet) ==
    IF n < radix THEN <<alphabet[n + 1]>>
    ELSE Append(FormatRadix(n \div radix, radix, alphabet), alphabet[(n % radix) + 1])

RECURSIVE RadixValue(_, _, _)
RadixValue(t, radix, alphabet) ==
    IF t = <<>> THEN 0
    ELSE RadixValue(SubSeq(t, 1, Len(t) - 1), radix, alphabet) * radix
         + IndexOf(t[Len(t)], alphabet)

\* value of a non-empty all-digit text, -1 when it is empty, has a foreign
\* character or exceeds max (texts here stay below ten characters)
ParseRadix(t, radix, alphabet, max) ==
    IF t = <<>> \/ Len(t) > 9 \/ \E i \in 1..Len(t) : IndexOf(t[i], alphabet) < 0 THEN -1
    ELSE IF RadixValue(t, radix, alphabet) > max THEN -1
    ELSE RadixValue(t, radix, alphabet)

\* the pieces of t between occurrences of sep (strings.Split)
RECURSIVE SplitOn(_, _)
SplitOn(t, sep) ==
    IF \A i \in 1..Len(t) : t[i] # sep THEN <<t>>
    ELSE LET k == CHOOSE i \in 1..Len(t) : t[i] = sep /\ \A j \in 1..(i - 1) : t[j] # sep
         IN  <<SubSeq(t, 1, k - 1)>> \o SplitOn(SubSeq(t, k + 1, Len(t)), sep)

RECURSIVE JoinWith(_, _)
JoinWith(ts, sep) ==
    IF ts = <<>> THEN <<>>
    ELSE IF Len(ts) = 1 THEN ts[1]
    ELSE ts[1] \o sep \o JoinWith(Tail(ts), sep)

(***************************************************************************)
(* Byte strings                                                            *)
(***************************************************************************)
Txt(chars)  == [txt |-> chars]
Empty       == Txt(<<>>)
IsTxt(b)    == "txt" \in DOMAIN b
IsEmpty(b)  == IsTxt(b) /\ b.txt = <<>>
Cat(a, b)   == IF IsEmpty(a) THEN b ELSE IF IsEmpty(b) THEN a ELSE [cat |-> <<a, b>>]

\* common.go Hash / crypto/sha1
Sha1(b) == [sha1 |-> b]
Hash(b) == Sha1(b)

\* common.go Base32Encode / Base32Decode: lower-case RFC 4648 base-32
Base32Encode(b) == IF IsEmpty(b) THEN Empty ELSE [b32 |-> b]
Base32Decode(t) ==
    IF IsEmpty(t) THEN [err |-> FALSE, bytes |-> Empty]
    ELSE IF "b32" \in DOMAIN t THEN [err |-> FALSE, bytes |-> t.b32]
    ELSE [err |-> TRUE, bytes |-> Empty]

\* pkcs1.EncodePublicKeyDER / DecodePublicKeyDER; NilKey is a nil *rsa.PublicKey
NilKey == [nilkey |-> TRUE]
EncodePublicKeyDER(k) ==
    IF k = NilKey THEN [err |-> TRUE, der |-> Empty] ELSE [err |-> FALSE, der |-> [der |-> k]]
DecodePublicKeyDER(b) ==
    IF "der" \in DOMAIN b THEN [err |-> FALSE, key |-> b.der] ELSE [err |-> TRUE, key |-> NilKey]

\* encoding/pem EncodeToMemory: an armored block element
PemBlock(type, bytes) == [pem |-> type, bytes |-> bytes]
Line(kw, arg) == [line |-> kw, arg |-> arg]
IsLine(e) == "line" \in DOMAIN e

\* a byte buffer holding wire elements; the empty buffer is the empty string
DocBytes(elems) == IF elems = <<>> THEN Empty ELSE [doc |-> elems]
Elems(b) == IF "doc" \in DOMAIN b THEN b.doc ELSE <<>>
Concat(a, b) ==
    IF IsEmpty(a) THEN b
    ELSE IF IsEmpty(b) THEN a
    ELSE IF "doc" \in DOMAIN a /\ "doc" \in DOMAIN b THEN DocBytes(a.doc \o b.doc)
    ELSE Cat(a, b)

(***************************************************************************)
(* torparse: the document tokenizer.  A record maps a field name to its    *)
(* entries; an entry is the list of its arguments, an armored block        *)
(* contributing its decoded bytes.  A record begins at the document's      *)
(* first keyword and runs to the next occurrence of that keyword.          *)
(***************************************************************************)
Field(doc, kw) == IF kw \in DOMAIN doc THEN doc[kw] ELSE <<>>

Joined(entry) ==
    IF Len(entry) = 0 THEN Empty
    ELSE IF Len(entry) = 1 THEN entry[1]
    ELSE [cat |-> entry]

FJoined(entries) == IF Len(entries) < 1 THEN Empty ELSE Joined(entries[1])

Indices(seq) == [i \in 1..Len(seq) |-> i]

\* the record held by one segment of the document: every keyword line opens
\* an entry with its argument, the armored blocks up to the next keyword line
\* add their decoded bytes to it
RecordOfSegment(seg) ==
    LET isLineAt(i) == IsLine(seg[i])
        lineAt == SelectSeq(Indices(seg), isLineAt)
        nextLine(i) == IF \E j \in (i + 1)..Len(seg) : IsLine(seg[j])
                       THEN CHOOSE j \in (i + 1)..Len(seg) :
                                IsLine(seg[j]) /\ \A k \in (i + 1)..(j - 1) : ~IsLine(seg[k])
                       ELSE Len(seg) + 1
        entry(i) == (IF IsEmpty(seg[i].arg) THEN <<>> ELSE <<seg[i].arg>>)
                    \o [k \in 1..(nextLine(i) - i - 1) |-> seg[i + k].bytes]
        entriesOf(kw) == LET hasKw(i) == seg[i].line = kw
                             at == SelectSeq(lineAt, hasKw)
                         IN  [j \in 1..Len(at) |-> entry(at[j])]
    IN  [kw \in {seg[lineAt[j]].line : j \in 1..Len(lineAt)} |-> entriesOf(kw)]

\* the records of a document: a new one starts at each line carrying the
\* document's first keyword; blocks ahead of the first line belong to nothing
Tokenize(elems) ==
    LET isMarkerAt(i) == IsLine(elems[i]) /\ elems[i].line = SelectSeq(elems, IsLine)[1].line
        starts == SelectSeq(Indices(elems), isMarkerAt)
        end(j) == IF j < Len(starts) THEN starts[j + 1] - 1 ELSE Len(elems)
    IN  [j \in 1..Len(starts) |-> RecordOfSegment(SubSeq(elems, starts[j], end(j)))]

ParseTorDocument(b) ==
    IF "doc" \in DOMAIN b
    THEN [docs |-> Tokenize(b.doc), rest |-> Empty]
    ELSE [docs |-> <<>>, rest |-> b]

(***************************************************************************)
(* net.IP: a byte sequence of length 4 or 16; NilIP is the nil slice.      *)
(***************************************************************************)
NilIP == <<>>
IPv4len == 4
IPv6len == 16

IPv4(a, b, c, d) == <<0, 0, 0, 0, 0, 0, 0, 0, 0, 0, 255, 255, a, b, c, d>>

To4(ip) ==
    IF Len(ip) = IPv4len THEN ip
    ELSE IF Len(ip) = IPv6len /\ (\A i \in 1..10 : ip[i] = 0) /\ ip[11] = 255 /\ ip[12] = 255
    THEN SubSeq(ip, 13, 16)
    ELSE NilIP

Groups(ip) == [i \in 1..8 |-> ip[2 * i - 1] * 256 + ip[2 * i]]
Hex(n) == FormatRadix(n, 16, HexChars)
Dec(n) == FormatRadix(n, 10, DigitChars)

RECURSIVE ZeroRun(_, _)
ZeroRun(g, i) == IF i > Len(g) \/ g[i] # 0 THEN 0 ELSE 1 + ZeroRun(g, i + 1)

\* IP.String for a 16-byte address that is not IPv4-mapped: the first longest
\* run of two or more zero groups becomes "::"
IPv6String(ip) ==
    LET g == Groups(ip)
        starts == {i \in 1..8 : ZeroRun(g, i) > 1 /\ (i = 1 \/ g[i - 1] # 0)}
        hexes(a, b) == JoinWith([i \in 1..(b - a + 1) |-> Hex(g[a + i - 1])], <<":">>)
    IN  IF starts = {} THEN hexes(1, 8)
        ELSE LET e0 == CHOOSE i \in starts :
                           \A j \in starts : ZeroRun(g, j) < ZeroRun(g, i)
                                             \/ (ZeroRun(g, j) = ZeroRun(g, i) /\ i <= j)
                 e1 == e0 + ZeroRun(g, e0)
             IN  hexes(1, e0 - 1) \o <<":", ":">> \o hexes(e1, 8)

\* net.IP.String (what %v prints)
IPString(ip) ==
    IF Len(ip) = 0 THEN Txt(<<"<", "n", "i", "l", ">">>)
    ELSE IF To4(ip) # NilIP
    THEN LET p4 == To4(ip)
         IN  Txt(JoinWith(<<Dec(p4[1]), Dec(p4[2]), Dec(p4[3]), Dec(p4[4])>>, <<".">>))
    ELSE IF Len(ip) # IPv6len THEN Txt(<<"?">> \o Flatten([i \in 1..Len(ip) |-> Hex(ip[i])]))
    ELSE Txt(IPv6String(ip))

parseIPv4(t) ==
    LET parts == SplitOn(t, ".")
        n(i) == ParseRadix(parts[i], 10, DigitChars, 255)
    IN  IF Len(parts) # 4 \/ \E i \in 1..4 : n(i) < 0 THEN NilIP
        ELSE IPv4(n(1), n(2), n(3), n(4))

RECURSIVE HexPrefix(_)
HexPrefix(t) ==
    IF t = <<>> \/ IndexOf(t[1], HexChars) < 0 THEN <<>> ELSE <<t[1]>> \o HexPrefix(Tail(t))

GroupBytes(g) == Flatten([i \in 1..Len(g) |-> <<g[i] \div 256, g[i] % 256>>])

\* after parseIPv6's loop: the ellipsis expands to the missing groups
IPv6Finish(g, ell) ==
    IF Len(g) < 8
    THEN IF ell < 0 THEN NilIP
         ELSE GroupBytes(SubSeq(g, 1, ell) \o [i \in 1..(8 - Len(g)) |-> 0]
                         \o SubSeq(g, ell + 1, Len(g)))
    ELSE IF ell >= 0 THEN NilIP ELSE GroupBytes(g)

\* parseIPv6's loop: s is the unread text, g the groups read, ell the ellipsis
\* position (-1: none).  A dotted-quad tail is not modelled (rejected).
RECURSIVE IPv6Loop(_, _, _)
IPv6Loop(s, g, ell) ==
    IF Len(g) = 8 THEN (IF s # <<>> THEN NilIP ELSE IPv6Finish(g, ell))
    ELSE LET h == HexPrefix(s)
             n == ParseRadix(h, 16, HexChars, 65535)
             s1 == SubSeq(s, Len(h) + 1, Len(s))
             g1 == Append(g, n)
         IN  IF n < 0 THEN NilIP
             ELSE IF s1 = <<>> THEN IPv6Finish(g1, ell)
             ELSE IF s1[1] # ":" \/ Len(s1) = 1 THEN NilIP
             ELSE LET s2 == Tail(s1) IN
                  IF s2[1] = ":"
                  THEN IF ell >= 0 THEN NilIP
                       ELSE IF Tail(s2) = <<>> THEN IPv6Finish(g1, Len(g1))
                       ELSE IPv6Loop(Tail(s2), g1, Len(g1))
                  ELSE IPv6Loop(s2, g1, ell)

parseIPv6(t) ==
    IF Len(t) >= 2 /\ t[1] = ":" /\ t[2] = ":"
    THEN IF Len(t) = 2 THEN GroupBytes([i \in 1..8 |-> 0])
         ELSE IPv6Loop(SubSeq(t, 3, Len(t)), <<>>, 0)
    ELSE IPv6Loop(t, <<>>, -1)

\* net.ParseIP: the first '.' or ':' decides the family; always 16 bytes
ParseIP(b) ==
    IF ~IsTxt(b) THEN NilIP
    ELSE LET t == b.txt
             seps == {i \in 1..Len(t) : t[i] \in {".", ":"}}
         IN  IF seps = {} THEN NilIP
             ELSE LET k == CHOOSE i \in seps : \A j \in seps : i <= j
                  IN  IF t[k] = "." THEN parseIPv4(t) ELSE parseIPv6(t)

\* net.IP.Equal: an IPv4 address and its 16-byte form are the same address
IPEqual(a, b) ==
    IF Len(a) = Len(b) THEN a = b
    ELSE IF Len(a) = IPv4len /\ Len(b) = IPv6len THEN To4(b) = a
    ELSE IF Len(a) = IPv6len /\ Len(b) = IPv4len THEN To4(a) = b
    ELSE FALSE

\* common.go InetPortFromByteString: strconv.ParseUint(s, 10, 16)
MaxPort == 65535
InetPortFromByteString(b) ==
    LET p == IF IsTxt(b) THEN ParseRadix(b.txt, 10, DigitChars, MaxPort) ELSE -1
    IN  IF p < 0 THEN [err |-> TRUE, port |-> 0] ELSE [err |-> FALSE, port |-> p]

(***************************************************************************)
(* intropoint.go                                                           *)
(***************************************************************************)
IntroductionPoint(identity, address, port, onionKey, serviceKey) ==
    [Identity |-> identity, InternetAddress |-> address, OnionPort |-> port,
     OnionKey |-> onionKey, ServiceKey |-> serviceKey]

Skip(why) == [ok |-> FALSE, ip |-> None, log |-> why]

\* one pass of ParseIntroPoints' loop body over a tokenized record
DecodeIntroPoint_NoPortCheck(doc) ==
    IF "introduction-point" \notin DOMAIN doc
    THEN Skip("Got a document that is not an introduction point")
    ELSE LET identity    == Base32Decode(FJoined(Field(doc, "introduction-point")))
             address     == ParseIP(FJoined(Field(doc, "ip-address")))
             onion_port  == InetPortFromByteString(FJoined(Field(doc, "onion-port")))
             onion_key   == DecodePublicKeyDER(FJoined(Field(doc, "onion-key")))
             service_key == DecodePublicKeyDER(FJoined(Field(doc, "service-key")))
         IN  IF identity.err THEN Skip("The IP has invalid idenity. Skipping")
             ELSE IF address = NilIP THEN Skip("Not a valid Internet address for an IntroPoint")
             ELSE IF onion_key.err THEN Skip("Decoding DER sequence of PulicKey has failed")
             ELSE IF service_key.err THEN Skip("Decoding DER sequence of PulicKey has failed")
             ELSE [ok |-> TRUE, log |-> "",
                   ip |-> IntroductionPoint(identity.bytes, address, onion_port.port,
                                            onion_key.key, service_key.key)]

DecodeIntroPoint(doc) ==
    IF "introduction-point" \notin DOMAIN doc
    THEN Skip("Got a document that is not an introduction point")
    ELSE LET identity    == Base32Decode(FJoined(Field(doc, "introduction-point")))
             address     == ParseIP(FJoined(Field(doc, "ip-address")))
             onion_port  == InetPortFromByteString(FJoined(Field(doc, "onion-port")))
             onion_key   == DecodePublicKeyDER(FJoined(Field(doc, "onion-key")))
             service_key == DecodePublicKeyDER(FJoined(Field(doc, "service-key")))
         IN  IF identity.err THEN Skip("The IP has invalid idenity. Skipping")
             ELSE IF address = NilIP THEN Skip("Not a valid Internet address for an IntroPoint")
             ELSE IF onion_port.err THEN Skip("Error parsing IP port")
             ELSE IF onion_key.err THEN Skip("Decoding DER sequence of PulicKey has failed")
             ELSE IF service_key.err THEN Skip("Decoding DER sequence of PulicKey has failed")
             ELSE [ok |-> TRUE, log |-> "",
                   ip |-> IntroductionPoint(identity.bytes, address, onion_port.port,
                                            onion_key.key, service_key.key)]

\* what the loop of ParseIntroPoints leaves behind, given the outcome of its
\* body on each record: a failed record takes `continue`, a decoded one is
\* appended, so ips holds the decoded ones in source order
CollectIntroPoints(results) ==
    LET decoded(i) == results[i].ok
        failed(i)  == ~results[i].ok
        kept    == SelectSeq(Indices(results), decoded)
        dropped == SelectSeq(Indices(results), failed)
    IN  [ips |-> [j \in 1..Len(kept) |-> results[kept[j]].ip],
         log |-> [j \in 1..Len(dropped) |-> results[dropped[j]].log]]

IntroPointsLoop(docs) ==
    CollectIntroPoints([i \in 1..Len(docs) |-> DecodeIntroPoint(docs[i])])

WithRest(result, rest) == [ips |-> result.ips, rest |-> rest, log |-> result.log]

IntroPointsOf(t) == WithRest(IntroPointsLoop(t.docs), t.rest)

ParseIntroPoints(ips_str) == IntroPointsOf(ParseTorDocument(ips_str))

Encode_OnionKeyTwice(ip) ==
    DocBytes(<<Line("introduction-point", Base32Encode(ip.Identity)),
               Line("ip-address", IPString(ip.InternetAddress)),
               Line("onion-port", Txt(Dec(ip.OnionPort))),
               Line("onion-key", Empty),
               PemBlock("RSA PUBLIC KEY", EncodePublicKeyDER(ip.OnionKey).der),
               Line("service-key", Empty),
               PemBlock("RSA PUBLIC KEY", EncodePublicKeyDER(ip.OnionKey).der)>>)

\* Encode stops the process (log.Fatalf) when a key has no DER encoding
EncodeFatal(ip) ==
    EncodePublicKeyDER(ip.OnionKey).err \/ EncodePublicKeyDER(ip.ServiceKey).err

Encode(ip) ==
    DocBytes(<<Line("introduction-point", Base32Encode(ip.Identity)),
               Line("ip-address", IPString(ip.InternetAddress)),
               Line("onion-port", Txt(Dec(ip.OnionPort))),
               Line("onion-key", Empty),
               PemBlock("RSA PUBLIC KEY", EncodePublicKeyDER(ip.OnionKey).der),
               Line("service-key", Empty),
               PemBlock("RSA PUBLIC KEY", EncodePublicKeyDER(ip.ServiceKey).der)>>)

RECURSIVE MakeIntroPointsDocument(_)
MakeIntroPointsDocument(ips) ==
    IF ips = <<>> THEN Empty
    ELSE Concat(Encode(Head(ips)), MakeIntroPointsDocument(Tail(ips)))

(***************************************************************************)
(* 64-bit and 32-bit integers.  A time is hi * 65536 + lo with             *)
(* 0 <= lo < 65536, so that values beyond 2^31 can be computed with: an    *)
(* int64 has hi of either sign, a uint32 keeps hi in 0..65535.             *)
(***************************************************************************)
Wide(n) == [hi |-> n \div 65536, lo |-> n % 65536]
WideAdd(w, n) == [hi |-> w.hi + ((w.lo + n) \div 65536), lo |-> (w.lo + n) % 65536]
WideLE(a, b) == a.hi < b.hi \/ (a.hi = b.hi /\ a.lo <= b.lo)
WideLess(a, b) == a.hi < b.hi \/ (a.hi = b.hi /\ a.lo < b.lo)

\* uint32(x): the low 32 bits
Uint32(w) == [hi |-> w.hi % 65536, lo |-> w.lo]
\* a + n in uint32 arithmetic (wraps at 2^32)
Uint32Add(a, n) == Uint32(WideAdd(a, n))
\* w / 86400 for w >= 0: 86400 = 128 * 675 and w / 128 = hi * 512 + lo / 128
DivDay(w) == ((w.hi * 512) + (w.lo \div 128)) \div 675
\* Go's x % 3600 (the sign of x): 65536 % 3600 = 736
RemHour(w) ==
    LET m == (((w.hi % 3600) * 736) + w.lo) % 3600
    IN  IF w.hi < 0 /\ m # 0 THEN m - 3600 ELSE m

\* binary.Write(BigEndian, uint32)
BigEndian32(n) == <<(n \div 16777216) % 256, (n \div 65536) % 256, (n \div 256) % 256, n % 256>>

(***************************************************************************)
(* oniondesc.go                                                            *)
(***************************************************************************)
\* common.go CalcPermanentId: the fingerprint of the key's DER encoding
CalcPermanentId(k) ==
    IF EncodePublicKeyDER(k).err THEN [err |-> TRUE, id |-> Empty]
    ELSE [err |-> FALSE, id |-> [fp |-> k]]

\* perm_id[0]
FirstByte(b) == IF "raw" \in DOMAIN b THEN b.raw[1] ELSE b.fp.fp0

\* the time period of calcSecretId, in uint32 arithmetic
TimePeriod(perm_id, current_time) ==
    LET perm_id_byte == FirstByte(perm_id)
    IN  DivDay(Uint32Add(Uint32(current_time), (perm_id_byte * 86400) \div 256))

calcSecretId(perm_id, current_time, replica) ==
    Sha1([raw |-> BigEndian32(TimePeriod(perm_id, current_time)) \o <<replica>>])

calcDescriptorId(perm_id, secret_id) == Sha1([cat |-> <<perm_id, secret_id>>])

CalcDescriptorBodyDigest(descBody) == Hash(descBody)

\* time.Time{}: 0001-01-01 00:00:00 UTC, -62135596800 s
ZeroTime == [hi |-> -948114, lo |-> 2304]

OnionDescriptor(descId, version, key, secretId, pubTime, protoVersions, ips, signature) ==
    [DescId |-> descId, Version |-> version, PermanentKey |-> key,
     SecretIdPart |-> secretId, PublicationTime |-> pubTime,
     ProtocolVersions |-> protoVersions, IntroductionPoints |-> ips,
     Signature |-> signature]

\* byte(replica)
ByteOf(n) == n % 256

NewOnionDescriptor_RoundedSecret(perm_pk, ips, replica, current_time) ==
    LET rounded_current_time == WideAdd(current_time, -RemHour(current_time))
        perm_id   == CalcPermanentId(perm_pk).id
        secret_id == calcSecretId(perm_id, rounded_current_time, ByteOf(replica))
    IN  OnionDescriptor(calcDescriptorId(perm_id, secret_id), 2, perm_pk, secret_id,
                        rounded_current_time, <<2, 3>>, ips, Empty)

\* NewOnionDescriptor; ips is stored as given (the slice, not a copy of it)
NewOnionDescriptor(perm_pk, ips, replica, current_time) ==
    LET rounded_current_time == WideAdd(current_time, -RemHour(current_time))
        perm_id   == CalcPermanentId(perm_pk).id
        secret_id == calcSecretId(perm_id, current_time, ByteOf(replica))
    IN  OnionDescriptor(calcDescriptorId(perm_id, secret_id), 2, perm_pk, secret_id,
                        rounded_current_time, <<2, 3>>, ips, Empty)

\* fmt %d and strconv.ParseInt(s, 10, 0)
FormatInt(n) == IF n < 0 THEN <<"-">> \o Dec(-n) ELSE Dec(n)
ParseInt(b) ==
    LET t == IF IsTxt(b) THEN b.txt ELSE <<>>
        signed == t # <<>> /\ t[1] \in {"+", "-"}
        n == ParseRadix(IF signed THEN Tail(t) ELSE t, 10, DigitChars, 2147483647)
    IN  IF n < 0 THEN [err |-> TRUE, n |-> 0]
        ELSE [err |-> FALSE, n |-> IF signed /\ t[1] = "-" THEN -n ELSE n]

\* Body stops the process (log.Fatalf) when the key has no DER encoding
BodyFatal(d) == EncodePublicKeyDER(d.PermanentKey).err

IntroBlock_Always(ips) ==
    <<Line("introduction-points", Empty), PemBlock("MESSAGE", MakeIntroPointsDocument(ips))>>

\* the introduction-points block of Body: only for a non-empty list
IntroBlock(ips) ==
    IF Len(ips) # 0
    THEN <<Line("introduction-points", Empty), PemBlock("MESSAGE", MakeIntroPointsDocument(ips))>>
    ELSE <<>>

Body_WithSignature(d) ==
    DocBytes(<<Line("rendezvous-service-descriptor", Base32Encode(d.DescId)),
               Line("version", Txt(FormatInt(d.Version))),
               Line("permanent-key", Empty),
               PemBlock("RSA PUBLIC KEY", EncodePublicKeyDER(d.PermanentKey).der),
               Line("secret-id-part", Base32Encode(d.SecretIdPart)),
               Line("publication-time", [ts |-> d.PublicationTime]),
               Line("protocol-versions",
                    Txt(JoinWith([i \in 1..Len(d.ProtocolVersions) |->
                                     FormatInt(d.ProtocolVersions[i])], <<",">>)))>>
             \o IntroBlock(d.IntroductionPoints)
             \o <<Line("signature", Empty)>>
             \o (IF IsEmpty(d.Signature) THEN <<>> ELSE <<PemBlock("SIGNATURE", d.Signature)>>))

\* Body of a descriptor value whose IntroductionPoints are its current elements
Body(d) ==
    DocBytes(<<Line("rendezvous-service-descriptor", Base32Encode(d.DescId)),
               Line("version", Txt(FormatInt(d.Version))),
               Line("permanent-key", Empty),
               PemBlock("RSA PUBLIC KEY", EncodePublicKeyDER(d.PermanentKey).der),
               Line("secret-id-part", Base32Encode(d.SecretIdPart)),
               Line("publication-time", [ts |-> d.PublicationTime]),
               Line("protocol-versions",
                    Txt(JoinWith([i \in 1..Len(d.ProtocolVersions) |->
                                     FormatInt(d.ProtocolVersions[i])], <<",">>)))>>
             \o IntroBlock(d.IntroductionPoints)
             \o <<Line("signature", Empty)>>)

encodeSignature(signature) == DocBytes(<<PemBlock("SIGNATURE", signature)>>)

SignedDocument_Unsigned(d, signature) == Body(d)

\* Sign when doSign returns (signature, nil)
SignedDocument(d, signature) == Concat(Body(d), encodeSignature(signature))

\* one pass of ParseOnionDescriptors' loop body over a tokenized record.
\* doc["signature"][0] on a record without that field indexes an empty slice:
\* a run-time panic.
DecodeDescriptor(doc) ==
    IF "rendezvous-service-descriptor" \notin DOMAIN doc
    THEN [ok |-> FALSE, panic |-> FALSE, desc |-> None]
    ELSE LET descId  == FJoined(Field(doc, "rendezvous-service-descriptor"))
             version == ParseInt(FJoined(Field(doc, "version")))
             key     == DecodePublicKeyDER(FJoined(Field(doc, "permanent-key")))
             ips     == ParseIntroPoints(FJoined(Field(doc, "introduction-points"))).ips
             sig     == Field(doc, "signature")
         IN  IF version.err THEN [ok |-> FALSE, panic |-> FALSE, desc |-> None]
             ELSE IF key.err THEN [ok |-> FALSE, panic |-> FALSE, desc |-> None]
             ELSE IF Len(sig) = 0 THEN [ok |-> FALSE, panic |-> TRUE, desc |-> None]
             ELSE IF Len(sig[1]) < 1 THEN [ok |-> FALSE, panic |-> FALSE, desc |-> None]
             ELSE [ok |-> TRUE, panic |-> FALSE,
                   desc |-> OnionDescriptor(descId, version.n, key.key, Empty, ZeroTime,
                                            <<>>, ips, FJoined(sig))]

\* what the loop of ParseOnionDescriptors leaves behind, given the outcome of
\* its body on each record; a panic in any pass ends the call without a result
CollectDescriptors(results) ==
    LET decoded(i) == results[i].ok
        kept == SelectSeq(Indices(results), decoded)
    IN  IF \E i \in 1..Len(results) : results[i].panic
        THEN [panic |-> TRUE, descs |-> <<>>]
        ELSE [panic |-> FALSE, descs |-> [j \in 1..Len(kept) |-> results[kept[j]].desc]]

DescriptorsLoop(docs) ==
    CollectDescriptors([i \in 1..Len(docs) |-> DecodeDescriptor(docs[i])])

WithDescRest(result, rest) == [panic |-> result.panic, descs |-> result.descs, rest |-> rest]

DescriptorsOf(t) == WithDescRest(DescriptorsLoop(t.docs), t.rest)

ParseOnionDescriptors(descs_str) == DescriptorsOf(ParseTorDocument(descs_str))

(***************************************************************************)
(* Inputs                                                                  *)
(***************************************************************************)
MaxBatch == 3
MaxIPs   == 2

\* an RSA public key; fp0 is the first byte of its fingerprint
Key(name, fp0) == [key |-> name, fp0 |-> fp0]
K1 == Key("K1", 0)
K2 == Key("K2", 255)
K3 == Key("K3", 128)

Raw(bytes) == [raw |-> bytes]

IPa == IntroductionPoint(Raw(<<1>>), <<10, 0, 0, 1>>, 80, K1, K2)
IPb == IntroductionPoint(Raw(<<2>>), IPv4(192, 168, 1, 255), MaxPort, K2, K1)
IPc == IntroductionPoint(Raw(<<3>>), <<32, 1, 13, 184, 0, 0, 0, 0, 0, 0, 0, 0, 0, 0, 0, 1>>, 0, K3, K3)
IPd == IntroductionPoint(Raw(<<4>>), <<0, 1, 0, 0, 0, 0, 0, 2, 0, 0, 0, 0, 0, 0, 0, 3>>, 9001, K1, K3)
IPnokey == IntroductionPoint(Raw(<<5>>), <<10, 0, 0, 2>>, 443, K1, NilKey)

ValidIPs == {IPa, IPb, IPc, IPd}
IPPool   == ValidIPs \cup {IPnokey}

\* tokenized records: two well-formed ones and one malformed per decode step
RecordOfIP(ip) == ParseTorDocument(Encode(ip)).docs[1]
Arg(b) == <<<<b>>>>
WithField(doc, kw, entries) == [k \in DOMAIN doc \cup {kw} |-> IF k = kw THEN entries ELSE doc[k]]
RecA       == RecordOfIP(IPa)
RecC       == RecordOfIP(IPc)
RecBadId   == WithField(RecA, "introduction-point", Arg(Txt(<<"!", "!">>)))
RecBadAddr == WithField(RecA, "ip-address", Arg(Txt(<<"9", "9", "9", ".", "1", ".", "1", ".", "1">>)))
RecBadPort == WithField(RecA, "onion-port", Arg(Txt(<<"6", "5", "5", "3", "6">>)))
RecNoPort  == [k \in DOMAIN RecA \ {"onion-port"} |-> RecA[k]]
RecBadOKey == WithField(RecA, "onion-key", Arg(Txt(<<"x">>)))
RecBadSKey == WithField(RecC, "service-key", <<<<>>>>)
RecNotIntro == [k \in {"router"} |-> Arg(Txt(<<"r">>))]

IntroRecordPool ==
    {RecA, RecC, RecBadId, RecBadAddr, RecBadPort, RecNoPort, RecBadOKey, RecBadSKey, RecNotIntro}

(***************************************************************************)
(* Specification SpecIntro: a caller of the introduction-point codec.      *)
(***************************************************************************)
Idle == /\ heap = None /\ callerIps = None /\ desc = None /\ args = None /\ now = None
        /\ snap = None /\ sign = None /\ period = None

InitIntro ==
    /\ Idle
    /\ wire = None /\ parsed = None
    /\ \/ pc = "batch" /\ batch \in SeqsUpTo(IntroRecordPool, MaxBatch) /\ ipsIn = <<>>
       \/ pc = "ips" /\ ipsIn \in SeqsUpTo(IPPool, MaxIPs) /\ batch = <<>>

\* the loop of ParseIntroPoints over a batch of tokenized records
ParseBatch ==
    /\ pc = "batch"
    /\ parsed' = IntroPointsLoop(batch)
    /\ pc' = "batchParsed"
    /\ UNCHANGED <<batch, ipsIn, wire, heap, callerIps, desc, args, now, snap, sign, period>>

\* MakeIntroPointsDocument(ips)
EncodeIPs ==
    /\ pc = "ips"
    /\ \A i \in 1..Len(ipsIn) : ~EncodeFatal(ipsIn[i])
    /\ wire' = MakeIntroPointsDocument(ipsIn)
    /\ pc' = "encoded"
    /\ UNCHANGED <<batch, ipsIn, parsed, heap, callerIps, desc, args, now, snap, sign, period>>

\* MakeIntroPointsDocument(ips) reaching a key without DER encoding: log.Fatalf
EncodeIPsFatal ==
    /\ pc = "ips"
    /\ \E i \in 1..Len(ipsIn) : EncodeFatal(ipsIn[i])
    /\ pc' = "exited"
    /\ UNCHANGED <<batch, ipsIn, wire, parsed, heap, callerIps, desc, args, now, snap, sign, period>>

\* ParseIntroPoints(string(wire))
ParseWire ==
    /\ pc = "encoded"
    /\ parsed' = ParseIntroPoints(wire)
    /\ pc' = "decoded"
    /\ UNCHANGED <<batch, ipsIn, wire, heap, callerIps, desc, args, now, snap, sign, period>>

NextIntro == ParseBatch \/ EncodeIPs \/ EncodeIPsFatal \/ ParseWire

SpecIntro == InitIntro /\ [][NextIntro]_vars

(***************************************************************************)
(* Claims about the introduction-point codec                               *)
(***************************************************************************)
WellFormedIntroRecord(doc) ==
    /\ "introduction-point" \in DOMAIN doc
    /\ ~Base32Decode(FJoined(Field(doc, "introduction-point"))).err
    /\ ParseIP(FJoined(Field(doc, "ip-address"))) # NilIP
    /\ ~InetPortFromByteString(FJoined(Field(doc, "onion-port"))).err
    /\ ~DecodePublicKeyDER(FJoined(Field(doc, "onion-key"))).err
    /\ ~DecodePublicKeyDER(FJoined(Field(doc, "service-key"))).err

IntroRecordValue(doc) ==
    IntroductionPoint(Base32Decode(FJoined(Field(doc, "introduction-point"))).bytes,
                      ParseIP(FJoined(Field(doc, "ip-address"))),
                      InetPortFromByteString(FJoined(Field(doc, "onion-port"))).port,
                      DecodePublicKeyDER(FJoined(Field(doc, "onion-key"))).key,
                      DecodePublicKeyDER(FJoined(Field(doc, "service-key"))).key)

WellFormedValues(docs) ==
    LET good == SelectSeq(docs, WellFormedIntroRecord)
    IN  [i \in 1..Len(good) |-> IntroRecordValue(good[i])]

\* C1: the parse loop returns exactly the well-formed records of the batch, in
\* source order; every other record is dropped alone, with one diagnostic each.
C1_FailureIsolation ==
    pc = "batchParsed" =>
        /\ parsed.ips = WellFormedValues(batch)
        /\ Len(parsed.log) = Len(batch) - Len(parsed.ips)

\* a batch of three whose second record has an invalid port
C1_Witness ==
    /\ pc = "batchParsed"
    /\ batch = <<RecA, RecBadPort, RecC>>
    /\ parsed.ips = <<IntroRecordValue(RecA), IntroRecordValue(RecC)>>

SameIntroPoint(a, b) ==
    /\ a.Identity = b.Identity
    /\ IPEqual(a.InternetAddress, b.InternetAddress)
    /\ a.OnionPort = b.OnionPort
    /\ EncodePublicKeyDER(a.OnionKey) = EncodePublicKeyDER(b.OnionKey)
    /\ EncodePublicKeyDER(a.ServiceKey) = EncodePublicKeyDER(b.ServiceKey)

SameIntroPoints(as, bs) ==
    Len(as) = Len(bs) /\ \A i \in 1..Len(as) : SameIntroPoint(as[i], bs[i])

\* C3: parsing what Encode / MakeIntroPointsDocument wrote returns the same
\* records in the same order: identity, address (as an address: a 4-byte IPv4
\* comes back in its 16-byte form), port and both keys (by DER), nothing left over.
C3_IntroRoundTrip ==
    pc = "decoded" => SameIntroPoints(parsed.ips, ipsIn) /\ IsEmpty(parsed.rest)

\* two records, an IPv4 and an IPv6 one, written and read back
C3_Witness ==
    /\ pc = "decoded"
    /\ ipsIn = <<IPa, IPd>>
    /\ Len(parsed.ips) = 2
    /\ parsed.ips[2] = IPd

(***************************************************************************)
(* Specification SpecDesc: construct a descriptor, sign it, parse the      *)
(* signed document back.                                                   *)
(***************************************************************************)
\* wall-clock readings: the epoch, the last second of an hour, a second just
\* after a day boundary, a date in 2016 and one close to 2^32
ClockReadings ==
    {Wide(0), Wide(3599), Wide(86400 + 400), WideAdd(Wide(1478217600), 400),
     [hi |-> 65535, lo |-> 60000]}
KeyPool     == {K1, K2, K3, NilKey}
ReplicaPool == {0, 1, 256}
VersionPool == {0, 3, -1}
\* what doSign returns as the signature
SigPool     == {Raw(<<7, 7>>), Raw(<<9>>)}

\* a slice: the backing array it points to and its length
Slice(arr, len) == [arr |-> arr, len |-> len]
Deref(h, sl) == SubSeq(h[sl.arr], 1, sl.len)
\* the descriptor as a value: its introduction points read through the slice
DescValue(h, d) == [d EXCEPT !.IntroductionPoints = Deref(h, d.IntroductionPoints)]

InitDesc ==
    /\ pc = "start"
    /\ batch = None /\ ipsIn = None /\ wire = None /\ parsed = None
    /\ snap = None /\ period = None /\ desc = None
    /\ sign = [calls |-> <<>>, err |-> FALSE]
    /\ now \in ClockReadings
    /\ \E k \in KeyPool, r \in ReplicaPool : args = [key |-> k, replica |-> r]
    /\ \E ips \in SeqsUpTo(ValidIPs, MaxIPs) :
          /\ heap = [a \in {"ips"} |-> ips]
          /\ callerIps = Slice("ips", Len(ips))

\* desc := NewOnionDescriptor(key, ips, replica)
Construct ==
    /\ pc = "start"
    /\ ~CalcPermanentId(args.key).err
    /\ desc' = NewOnionDescriptor(args.key, callerIps, args.replica, now)
    /\ pc' = "built"
    /\ UNCHANGED <<batch, ipsIn, wire, parsed, heap, callerIps, args, now, snap, sign, period>>

\* NewOnionDescriptor on a key without fingerprint: perm_id is empty and
\* perm_id[0] panics
ConstructPanics ==
    /\ pc = "start"
    /\ CalcPermanentId(args.key).err
    /\ pc' = "panicked"
    /\ UNCHANGED <<batch, ipsIn, wire, parsed, heap, callerIps, desc, args, now, snap, sign, period>>

\* the caller assigns the exported field: desc.Version = v
SetVersion ==
    /\ pc = "built"
    /\ desc.Version = 2
    /\ \E v \in VersionPool : desc' = [desc EXCEPT !.Version = v]
    /\ UNCHANGED <<pc, batch, ipsIn, wire, parsed, heap, callerIps, args, now, snap, sign, period>>

\* desc.Sign(doSign), doSign returning (signature, nil)
SignOk ==
    /\ pc = "built"
    /\ \E signature \in SigPool :
          /\ sign' = [calls |-> Append(sign.calls, CalcDescriptorBodyDigest(Body(DescValue(heap, desc)))),
                      err |-> FALSE, signature |-> signature]
          /\ wire' = SignedDocument(DescValue(heap, desc), signature)
    /\ pc' = "signed"
    /\ UNCHANGED <<batch, ipsIn, parsed, heap, callerIps, desc, args, now, snap, period>>

\* desc.Sign(doSign), doSign returning an error: log.Fatalf ends the process,
\* Sign does not return
SignFails ==
    /\ pc = "built"
    /\ sign' = [calls |-> Append(sign.calls, CalcDescriptorBodyDigest(Body(DescValue(heap, desc)))),
                err |-> TRUE]
    /\ pc' = "exited"
    /\ UNCHANGED <<batch, ipsIn, wire, parsed, heap, callerIps, desc, args, now, snap, period>>

\* ParseOnionDescriptors(string(signedDesc))
ParseSigned ==
    /\ pc = "signed"
    /\ parsed' = ParseOnionDescriptors(wire)
    /\ pc' = "reparsed"
    /\ UNCHANGED <<batch, ipsIn, wire, heap, callerIps, desc, args, now, snap, sign, period>>

NextDesc == Construct \/ ConstructPanics \/ SetVersion \/ SignOk \/ SignFails \/ ParseSigned

SpecDesc == InitDesc /\ [][NextDesc]_vars

(***************************************************************************)
(* Claims about construction, signing and the signed document              *)
(***************************************************************************)
Built == pc \in {"built", "signed", "exited", "reparsed"}

\* C2 (as claimed): the signed document parses back to exactly one descriptor
\* with the constructed descriptor's DescId (the raw digest), version,
\* permanent key (by DER) and introduction points.
C2_DescriptorRoundTrip ==
    pc = "reparsed" =>
        /\ ~parsed.panic
        /\ Len(parsed.descs) = 1
        /\ parsed.descs[1].DescId = desc.DescId
        /\ parsed.descs[1].Version = desc.Version
        /\ EncodePublicKeyDER(parsed.descs[1].PermanentKey) = EncodePublicKeyDER(desc.PermanentKey)
        /\ SameIntroPoints(parsed.descs[1].IntroductionPoints, Deref(heap, desc.IntroductionPoints))

\* C2 (what the code does): every field but DescId comes back; DescId comes
\* back as the base-32 text of the constructed descriptor's DescId.
C2_RoundTripUpToDescIdText ==
    pc = "reparsed" =>
        /\ ~parsed.panic
        /\ Len(parsed.descs) = 1
        /\ parsed.descs[1].DescId = Base32Encode(desc.DescId)
        /\ parsed.descs[1].Version = desc.Version
        /\ EncodePublicKeyDER(parsed.descs[1].PermanentKey) = EncodePublicKeyDER(desc.PermanentKey)
        /\ SameIntroPoints(parsed.descs[1].IntroductionPoints, Deref(heap, desc.IntroductionPoints))

SignCompletes ==
    pc \in {"signed", "reparsed"} =>
        /\ ~sign.err
        /\ sign.calls = <<Hash(Body(DescValue(heap, desc)))>>
        /\ wire = Concat(Body(DescValue(heap, desc)),
                         DocBytes(<<PemBlock("SIGNATURE", sign.signature)>>))

Keywords(elems) ==
    LET lines == SelectSeq(elems, IsLine)
    IN  [i \in 1..Len(lines) |-> lines[i].line]

HeadKeywords ==
    <<"rendezvous-service-descriptor", "version", "permanent-key", "secret-id-part",
      "publication-time", "protocol-versions">>

\* C10: the body part of the signed document carries its fields in the fixed
\* order, the introduction-points block exactly when the descriptor has an
\* introduction point, with MakeIntroPointsDocument's bytes as payload, and
\* ends with the signature line without payload.
C10_BodyLayout ==
    pc = "signed" =>
        LET body == SubSeq(Elems(wire), 1, Len(Elems(wire)) - 1)
            ips  == Deref(heap, desc.IntroductionPoints)
        IN  /\ Keywords(body) = HeadKeywords
                                \o (IF Len(ips) > 0 THEN <<"introduction-points">> ELSE <<>>)
                                \o <<"signature">>
            /\ body[Len(body)] = Line("signature", Empty)
            /\ Len(ips) > 0 =>
                   /\ body[Len(body) - 2] = Line("introduction-points", Empty)
                   /\ body[Len(body) - 1] = PemBlock("MESSAGE", MakeIntroPointsDocument(ips))
            /\ \A i \in 1..Len(body) :
                   ~IsLine(body[i]) => /\ i > 1
                                       /\ body[i - 1] \in {Line("permanent-key", Empty),
                                                           Line("introduction-points", Empty)}

\* a signed descriptor with two introduction points: eight keyword lines, the
\* key block, the MESSAGE block and the SIGNATURE block
C10_Witness ==
    /\ pc = "signed"
    /\ desc.IntroductionPoints.len = 2
    /\ Len(Elems(wire)) = 11
    /\ Elems(wire)[9] = PemBlock("MESSAGE", MakeIntroPointsDocument(<<IPa, IPc>>))

(***************************************************************************)
(* Specification SpecOwn: after construction the caller keeps using its    *)
(* ips slice and the descriptor's exported fields, and calls Body.         *)
(***************************************************************************)
MaxWrites    == 1
MaxBodyCalls == 2

WriteAt(seq, i, x) == SubSeq(seq, 1, i - 1) \o <<x>> \o SubSeq(seq, i + 1, Len(seq))
\* sl[i] = x: the element of the backing array changes
Store(h, sl, i, x) == [a \in DOMAIN h |-> IF a = sl.arr THEN WriteAt(h[a], i, x) ELSE h[a]]

InitOwn ==
    /\ pc = "start"
    /\ batch = None /\ ipsIn = None /\ wire = None /\ parsed = None
    /\ period = None /\ desc = None /\ sign = None
    /\ now = WideAdd(Wide(1478217600), 400)
    /\ \E k \in {K1, K3} : args = [key |-> k, replica |-> 0]
    /\ \E ips \in SeqsUpTo(ValidIPs, MaxIPs) :
          /\ heap = [a \in {"ips"} |-> ips]
          /\ callerIps = Slice("ips", Len(ips))
          \* bodies, sigs: the Body results since the last element write and
          \* the Signature values they were computed under; descIps, callerIps:
          \* the elements last written through the descriptor / by the caller
          /\ snap = [bodies |-> {}, sigs |-> {}, calls |-> 0, writes |-> 0,
                     descIps |-> ips, callerIps |-> ips]

\* the caller: ips[i] = ip
CallerWrites ==
    /\ pc = "built"
    /\ snap.writes < MaxWrites
    /\ \E i \in 1..callerIps.len, ip \in ValidIPs :
          /\ heap' = Store(heap, callerIps, i, ip)
          /\ snap' = [snap EXCEPT !.callerIps = WriteAt(@, i, ip), !.writes = @ + 1,
                                  !.bodies = {}, !.sigs = {}, !.calls = 0]
    /\ UNCHANGED <<pc, batch, ipsIn, wire, parsed, callerIps, desc, args, now, sign, period>>

\* a holder of the descriptor: desc.IntroductionPoints[i] = ip
DescWrites ==
    /\ pc = "built"
    /\ snap.writes < MaxWrites
    /\ \E i \in 1..desc.IntroductionPoints.len, ip \in ValidIPs :
          /\ heap' = Store(heap, desc.IntroductionPoints, i, ip)
          /\ snap' = [snap EXCEPT !.descIps = WriteAt(@, i, ip), !.writes = @ + 1,
                                  !.bodies = {}, !.sigs = {}, !.calls = 0]
    /\ UNCHANGED <<pc, batch, ipsIn, wire, parsed, callerIps, desc, args, now, sign, period>>

\* desc.Signature = s
SetSignature ==
    /\ pc = "built"
    /\ \E s \in SigPool : desc.Signature # s /\ desc' = [desc EXCEPT !.Signature = s]
    /\ UNCHANGED <<pc, batch, ipsIn, wire, parsed, heap, callerIps, args, now, snap, sign, period>>

\* desc.Body()
CallBody ==
    /\ pc = "built"
    /\ ~BodyFatal(desc)
    /\ snap.calls < MaxBodyCalls
    /\ snap' = [snap EXCEPT !.bodies = @ \cup {Body(DescValue(heap, desc))},
                            !.sigs = @ \cup {desc.Signature},
                            !.calls = @ + 1]
    /\ UNCHANGED <<pc, batch, ipsIn, wire, parsed, heap, callerIps, desc, args, now, sign, period>>

NextOwn == Construct \/ CallerWrites \/ DescWrites \/ SetSignature \/ CallBody

SpecOwn == InitOwn /\ [][NextOwn]_vars

\* C7: the Body results of one descriptor, whatever its Signature field held at
\* each call, are one byte string, and so have one digest.
C7_DigestStability ==
    pc = "built" =>
        /\ Cardinality(snap.bodies) <= 1
        /\ Cardinality({CalcDescriptorBodyDigest(b) : b \in snap.bodies}) <= 1
        /\ snap.bodies \subseteq {Body(DescValue(heap, [desc EXCEPT !.Signature = Empty]))}

\* Body was called before and after the signature field was set
C7_Witness ==
    /\ pc = "built"
    /\ snap.calls = 2
    /\ snap.sigs = {Empty, Raw(<<9>>)}
    /\ Cardinality(snap.bodies) = 1

\* C9 (as claimed): the descriptor holds its introduction points by value: a
\* write through the caller's slice leaves the descriptor's elements as they
\* were, and a write through the descriptor leaves the caller's as they were.
C9_OwnedByValue ==
    pc = "built" =>
        /\ Deref(heap, desc.IntroductionPoints) = snap.descIps
        /\ Deref(heap, callerIps) = snap.callerIps

(***************************************************************************)
(* Specification SpecParseDesc: ParseOnionDescriptors' loop over a batch   *)
(* of tokenized records.                                                   *)
(***************************************************************************)
DescA == DescValue([a \in {"ips"} |-> <<IPa, IPc>>],
                   NewOnionDescriptor(K1, Slice("ips", 2), 0, Wide(86800)))
DescB == DescValue([a \in {"ips"} |-> <<>>],
                   NewOnionDescriptor(K2, Slice("ips", 0), 1, Wide(3599)))

DRecA          == ParseTorDocument(SignedDocument(DescA, Raw(<<7, 7>>))).docs[1]
DRecB          == ParseTorDocument(SignedDocument(DescB, Raw(<<9>>))).docs[1]
\* the unsigned body: a signature line without payload
DRecEmptySig   == ParseTorDocument(Body(DescA)).docs[1]
\* a document cut before its signature line
DRecNoSig      == [k \in DOMAIN DRecB \ {"signature"} |-> DRecB[k]]
DRecBadVersion == WithField(DRecA, "version", Arg(Txt(<<"v", "2">>)))
DRecBadKey     == WithField(DRecB, "permanent-key", Arg(Txt(<<"x">>)))
DRecBadIntro   == WithField(DRecA, "introduction-points", Arg(Txt(<<"x">>)))

DescRecordPool ==
    {DRecA, DRecB, DRecEmptySig, DRecNoSig, DRecBadVersion, DRecBadKey, DRecBadIntro, RecNotIntro}

InitParseDesc ==
    /\ Idle
    /\ pc = "descBatch"
    /\ ipsIn = None /\ wire = None /\ parsed = None
    /\ batch \in SeqsUpTo(DescRecordPool, MaxBatch)

\* the loop of ParseOnionDescriptors returns
ParseDescBatch ==
    /\ pc = "descBatch"
    /\ ~DescriptorsLoop(batch).panic
    /\ parsed' = DescriptorsLoop(batch)
    /\ pc' = "descsParsed"
    /\ UNCHANGED <<batch, ipsIn, wire, heap, callerIps, desc, args, now, snap, sign, period>>

\* the loop of ParseOnionDescriptors panics: the caller gets no result
ParseDescBatchPanics ==
    /\ pc = "descBatch"
    /\ DescriptorsLoop(batch).panic
    /\ pc' = "panicked"
    /\ UNCHANGED <<batch, ipsIn, wire, parsed, heap, callerIps, desc, args, now, snap, sign, period>>

NextParseDesc == ParseDescBatch \/ ParseDescBatchPanics

SpecParseDesc == InitParseDesc /\ [][NextParseDesc]_vars

HasSignature(doc) == Len(Field(doc, "signature")) > 0 /\ Len(Field(doc, "signature")[1]) > 0

WellFormedDescRecord(doc) ==
    /\ "rendezvous-service-descriptor" \in DOMAIN doc
    /\ ~ParseInt(FJoined(Field(doc, "version"))).err
    /\ ~DecodePublicKeyDER(FJoined(Field(doc, "permanent-key"))).err
    /\ HasSignature(doc)

\* C5 (as claimed): the call always returns; its result is the well-formed
\* records of the batch in source order, a record with an empty or absent
\* signature being dropped alone, so that every result carries a signature.
C5_NeverFailsAsAWhole ==
    /\ pc # "panicked"
    /\ pc = "descsParsed" =>
          LET good == SelectSeq(batch, WellFormedDescRecord)
          IN  /\ Len(parsed.descs) = Len(good)
              /\ \A i \in 1..Len(good) :
                    /\ parsed.descs[i].Signature = FJoined(Field(good[i], "signature"))
                    /\ ~IsEmpty(parsed.descs[i].Signature)
                    /\ parsed.descs[i].DescId = FJoined(Field(good[i], "rendezvous-service-descriptor"))

\* C5 (what the code does): the claim holds of every batch whose descriptor
\* records that reach the signature check all have a signature field.
C5_HoldsWhenNoPanic ==
    pc = "descsParsed" =>
        LET good == SelectSeq(batch, WellFormedDescRecord)
        IN  /\ Len(parsed.descs) = Len(good)
            /\ \A i \in 1..Len(good) :
                  /\ parsed.descs[i].Signature = FJoined(Field(good[i], "signature"))
                  /\ ~IsEmpty(parsed.descs[i].Signature)
                  /\ parsed.descs[i].DescId = FJoined(Field(good[i], "rendezvous-service-descriptor"))

(***************************************************************************)
(* Specification SpecPeriod: calcSecretId's time period for a fingerprint  *)
(* byte and a time, then for the same moment on the following days.        *)
(***************************************************************************)
MaxDays == 2

B0Pool == {0, 1, 127, 128, 255}
\* 0, the last second of a day, a date in 2016, 2038-01-19 (2^31), the last day
\* before 2^32, the last seconds before 2^32, and 2^32 + 5
TimePool ==
    {Wide(0), Wide(86399), WideAdd(Wide(1478217600), 400), [hi |-> 32768, lo |-> 0],
     [hi |-> 65534, lo |-> 30000], [hi |-> 65535, lo |-> 60000], [hi |-> 65536, lo |-> 5]}

InitPeriod ==
    /\ pc = "start"
    /\ batch = None /\ ipsIn = None /\ wire = None /\ parsed = None
    /\ heap = None /\ callerIps = None /\ desc = None /\ args = None /\ now = None
    /\ snap = None /\ sign = None
    /\ \E b0 \in B0Pool, t \in TimePool :
          period = [perm_id |-> Raw(<<b0>>), t |-> t, days |-> 0, tp |-> 0, prev |-> 0]

\* calcSecretId(perm_id, t, replica) computes its time period
Derive ==
    /\ pc = "start"
    /\ period' = [period EXCEPT !.tp = TimePeriod(period.perm_id, period.t)]
    /\ pc' = "derived"
    /\ UNCHANGED <<batch, ipsIn, wire, parsed, heap, callerIps, desc, args, now, snap, sign>>

\* the same call 86400 seconds later
NextDay ==
    /\ pc = "derived"
    /\ period.days < MaxDays
    /\ period' = [period EXCEPT !.t = WideAdd(@, 86400), !.days = @ + 1, !.prev = period.tp,
                                !.tp = TimePeriod(period.perm_id, WideAdd(period.t, 86400))]
    /\ UNCHANGED <<pc, batch, ipsIn, wire, parsed, heap, callerIps, desc, args, now, snap, sign>>

NextPeriod == Derive \/ NextDay

SpecPeriod == InitPeriod /\ [][NextPeriod]_vars

\* floor((t + b0 * 86400 / 256) / 86400) over the integers
ExactPeriod(b0, t) == DivDay(WideAdd(t, (b0 * 86400) \div 256))

\* C6 (as claimed): the time period is floor((t + b0*86400/256) / 86400) for
\* every t, and one day later it is exactly one more.
C6_RotationBoundary ==
    pc = "derived" =>
        /\ period.tp = ExactPeriod(FirstByte(period.perm_id), period.t)
        /\ period.days > 0 => period.tp = period.prev + 1

\* C6 (what the code does): both hold as long as t + b0*86400/256 stays
\* below 2^32.
C6_HoldsBelowWrap ==
    (pc = "derived" /\ WideAdd(period.t, (FirstByte(period.perm_id) * 86400) \div 256).hi < 65536) =>
        /\ period.tp = ExactPeriod(FirstByte(period.perm_id), period.t)
        /\ period.days > 0 => period.tp = period.prev + 1

====
